---- MODULE Spec2Model ----
(***************************************************************************)
(* Score Normalizer (miradnanayoub/score-normalizer): the React component  *)
(* ScoreNormalizer of src/unnamed/part_000 as a state machine.             *)
(*                                                                         *)
(* State: the five useState cells (maxMarks, targetMeanPercent, method,    *)
(* sdScaling, students), the two useMemo cells (stats, normalizedData) and *)
(* the anchor that downloadCSV clicks.  One action per event handler; an   *)
(* action that updates the state ends with the re-render that re-evaluates *)
(* the two memoized computations.                                          *)
(*                                                                         *)
(* JavaScript numbers are modelled as exact rationals extended with NaN    *)
(* and +/-Infinity; the rounding error of IEEE-754 doubles is not          *)
(* modelled.  Strings that are parsed by the program (the text of the      *)
(* number inputs, the result of toFixed) are sequences of one-character    *)
(* strings, so that parseFloat, Number() and toFixed are computed.         *)
(***************************************************************************)
EXTENDS Integers, Sequences, FiniteSets, TLC

\* ------------------------------------------------------------------------
\* Bounds of the model
\* ------------------------------------------------------------------------

\* Number of handler invocations explored from an initial state.
MaxEdits == 3

\* Largest roster the second specification starts from.
MaxRoster == 2

\* Longest decimal fraction Number-to-string conversion prints.
MaxFracDigits == 4

\* ------------------------------------------------------------------------
\* JavaScript numbers
\* ------------------------------------------------------------------------

Abs(i) == IF i < 0 THEN -i ELSE i

RECURSIVE GCD(_, _)
GCD(a, b) == IF b = 0 THEN a ELSE GCD(b, a % b)

\* The rational n/d (d # 0) in lowest terms with a positive denominator.
Rat(n, d) ==
    LET g == GCD(Abs(n), Abs(d))
        s == IF d < 0 THEN -1 ELSE 1
    IN  [k |-> "num", n |-> s * (n \div g), d |-> Abs(d) \div g]

Num(i) == [k |-> "num", n |-> i, d |-> 1]

NaN == [k |-> "nan", n |-> 0, d |-> 1]

\* +Infinity (s = 1) and -Infinity (s = -1).
Infinity(s) == [k |-> "inf", n |-> s, d |-> 1]

IsNaN(x) == x.k = "nan"

IsFinite(x) == x.k = "num"

\* Sign of a number that is not NaN; a zero counts as positive where a sign
\* is needed (negative zero is not modelled).
SignOf(x) == IF x.n < 0 THEN -1 ELSE 1

Neg(x) == [x EXCEPT !.n = -x.n]

\* x + y
Add(x, y) ==
    IF IsNaN(x) \/ IsNaN(y) THEN NaN
    ELSE IF x.k = "inf" /\ y.k = "inf" THEN (IF x.n = y.n THEN x ELSE NaN)
    ELSE IF x.k = "inf" THEN x
    ELSE IF y.k = "inf" THEN y
    ELSE LET g == GCD(x.d, y.d)
             l == (x.d \div g) * y.d
         IN  Rat(x.n * (l \div x.d) + y.n * (l \div y.d), l)

\* x - y
Sub(x, y) == Add(x, Neg(y))

\* x * y
Mul(x, y) ==
    IF IsNaN(x) \/ IsNaN(y) THEN NaN
    ELSE IF x.k = "inf" \/ y.k = "inf"
         THEN (IF x.n = 0 \/ y.n = 0 THEN NaN ELSE Infinity(SignOf(x) * SignOf(y)))
    ELSE LET a == Rat(x.n, y.d)
             b == Rat(y.n, x.d)
         IN  Rat(a.n * b.n, a.d * b.d)

\* x / y, with the IEEE results for a zero or infinite divisor.
Div(x, y) ==
    IF IsNaN(x) \/ IsNaN(y) THEN NaN
    ELSE IF x.k = "inf" THEN (IF y.k = "inf" THEN NaN ELSE Infinity(x.n * SignOf(y)))
    ELSE IF y.k = "inf" THEN Num(0)
    ELSE IF y.n = 0 THEN (IF x.n = 0 THEN NaN ELSE Infinity(SignOf(x)))
    ELSE Mul(x, Rat(y.d, y.n))

\* x < y (false when either is NaN)
Less(x, y) ==
    /\ ~IsNaN(x)
    /\ ~IsNaN(y)
    /\ IF x.k = "inf" THEN x.n = -1 /\ y # x
       ELSE IF y.k = "inf" THEN y.n = 1
       ELSE LET g == GCD(x.d, y.d)
            IN  x.n * (y.d \div g) < y.n * (x.d \div g)

\* x <= y (false when either is NaN)
Leq(x, y) == ~IsNaN(x) /\ ~IsNaN(y) /\ (x = y \/ Less(x, y))

\* x === y on numbers (NaN is not equal to itself)
StrictEq(x, y) == ~IsNaN(x) /\ ~IsNaN(y) /\ x = y

\* Math.min(x, y)
MathMin(x, y) == IF IsNaN(x) \/ IsNaN(y) THEN NaN ELSE IF Less(y, x) THEN y ELSE x

\* Math.max(x, y)
MathMax(x, y) == IF IsNaN(x) \/ IsNaN(y) THEN NaN ELSE IF Less(x, y) THEN y ELSE x

\* Math.pow(x, 2)
MathPow2(x) == Mul(x, x)

\* Largest r with r * r <= m, by bisection on lo..hi.
RECURSIVE ISqrtIn(_, _, _)
ISqrtIn(m, lo, hi) ==
    IF lo >= hi THEN lo
    ELSE LET mid == (lo + hi + 1) \div 2
         IN  IF mid <= m \div mid THEN ISqrtIn(m, mid, hi) ELSE ISqrtIn(m, lo, mid - 1)

ISqrt(m) == IF m = 0 THEN 0 ELSE ISqrtIn(m, 1, m)

\* Math.sqrt(x).  An irrational root is kept exact as the surd
\* [k |-> "sqrt"] of its rational radicand n/d.
MathSqrt(x) ==
    IF IsNaN(x) THEN NaN
    ELSE IF x.k = "inf" THEN (IF x.n = 1 THEN x ELSE NaN)
    ELSE IF x.n < 0 THEN NaN
    ELSE LET rn == ISqrt(x.n)
             rd == ISqrt(x.d)
         IN  IF rn * rn = x.n /\ rd * rd = x.d
             THEN Rat(rn, rd)
             ELSE [k |-> "sqrt", n |-> x.n, d |-> x.d]

\* ------------------------------------------------------------------------
\* JavaScript strings that the program parses or prints
\* ------------------------------------------------------------------------

Digits == <<"0", "1", "2", "3", "4", "5", "6", "7", "8", "9">>

IsDigit(c) == \E i \in 1..10 : Digits[i] = c

DigitVal(c) == (CHOOSE i \in 1..10 : Digits[i] = c) - 1

RECURSIVE Pow10(_)
Pow10(e) == IF e = 0 THEN 1 ELSE 10 * Pow10(e - 1)

\* Index of the first character at or after i that is not a digit.
RECURSIVE DigitsEnd(_, _)
DigitsEnd(s, i) == IF i <= Len(s) /\ IsDigit(s[i]) THEN DigitsEnd(s, i + 1) ELSE i

\* Value of the digits s[i..j] (0 when the range is empty).
RECURSIVE DigitsValue(_, _, _)
DigitsValue(s, i, j) ==
    IF j < i THEN 0 ELSE 10 * DigitsValue(s, i, j - 1) + DigitVal(s[j])

\* Decimal digits of the natural number m.
RECURSIVE IntChars(_)
IntChars(m) == IF m < 10 THEN <<Digits[m + 1]>> ELSE IntChars(m \div 10) \o <<Digits[(m % 10) + 1]>>

\* The w rightmost decimal digits of m, zero-padded.
RECURSIVE PadChars(_, _)
PadChars(m, w) == IF w = 0 THEN <<>> ELSE PadChars(m \div 10, w - 1) \o <<Digits[(m % 10) + 1]>>

InfinityChars == <<"I", "n", "f", "i", "n", "i", "t", "y">>

NaNChars == <<"N", "a", "N">>

\* The longest prefix of s that is a StrDecimalLiteral (sign, digits, ".",
\* digits, or Infinity): its value and the index after it.  val is NaN when
\* no prefix is one.  Leading white space and exponent parts are not
\* modelled: no text of the model carries them.
ScanDecimal(s) ==
    LET signed == Len(s) >= 1 /\ (s[1] = "-" \/ s[1] = "+")
        sgn    == IF Len(s) >= 1 /\ s[1] = "-" THEN -1 ELSE 1
        i0     == IF signed THEN 2 ELSE 1
        isInf  == Len(s) >= i0 + 7 /\ SubSeq(s, i0, i0 + 7) = InfinityChars
        i1     == DigitsEnd(s, i0)
        hasDot == i1 <= Len(s) /\ s[i1] = "."
        i2     == IF hasDot THEN DigitsEnd(s, i1 + 1) ELSE i1
        nInt   == i1 - i0
        nFrac  == IF hasDot THEN i2 - i1 - 1 ELSE 0
    IN  IF isInf THEN [val |-> Infinity(sgn), end |-> i0 + 8]
        ELSE IF nInt + nFrac = 0 THEN [val |-> NaN, end |-> 1]
        ELSE [val |-> Rat(sgn * (DigitsValue(s, i0, i1 - 1) * Pow10(nFrac)
                                 + DigitsValue(s, i1 + 1, i1 + nFrac)),
                          Pow10(nFrac)),
              end |-> i2]

\* parseFloat(s) of a string: the value of the longest numeric prefix.
ParseFloat(s) == ScanDecimal(s).val

\* Number(s) of a string: the empty string is 0, and the whole string has
\* to be numeric.
ToNumber(s) ==
    IF s = <<>> THEN Num(0)
    ELSE LET r == ScanDecimal(s)
         IN  IF r.end = Len(s) + 1 THEN r.val ELSE NaN

\* Number of fraction digits String(x) prints for the finite number x: the
\* least e with x * 10^e an integer (at most MaxFracDigits are printed).
FracDigits(x) ==
    IF \E e \in 0..MaxFracDigits : Pow10(e) % x.d = 0
    THEN CHOOSE e \in 0..MaxFracDigits :
            /\ Pow10(e) % x.d = 0
            /\ \A f \in 0..(e - 1) : Pow10(f) % x.d # 0
    ELSE MaxFracDigits

\* String(x) of a number.
NumberToString(x) ==
    IF IsNaN(x) THEN NaNChars
    ELSE IF x.k = "inf" THEN (IF x.n < 0 THEN <<"-">> ELSE <<>>) \o InfinityChars
    ELSE LET e      == FracDigits(x)
             scaled == (Abs(x.n) * Pow10(e)) \div x.d
         IN  (IF x.n < 0 THEN <<"-">> ELSE <<>>)
             \o IntChars(scaled \div Pow10(e))
             \o (IF e = 0 THEN <<>> ELSE <<".">> \o PadChars(scaled % Pow10(e), e))

\* x.toFixed(f): the integer m with m / 10^f closest to |x|, the larger one
\* on a tie, printed with exactly f fraction digits.
ToFixed(x, f) ==
    IF IsNaN(x) THEN NaNChars
    ELSE IF x.k = "inf" THEN (IF x.n < 0 THEN <<"-">> ELSE <<>>) \o InfinityChars
    ELSE LET m == (2 * Abs(x.n) * Pow10(f) + x.d) \div (2 * x.d)
         IN  (IF x.n < 0 THEN <<"-">> ELSE <<>>)
             \o IntChars(m \div Pow10(f))
             \o (IF f = 0 THEN <<>> ELSE <<".">> \o PadChars(m % Pow10(f), f))

\* ------------------------------------------------------------------------
\* JavaScript values held by a student's raw field: a number (the initial
\* roster, addStudent) or a string (the text of the raw-score input).
\* ------------------------------------------------------------------------

JsNumber(x) == [t |-> "number", num |-> x, str |-> <<>>]

JsString(s) == [t |-> "string", num |-> Num(0), str |-> s]

\* v !== ''
NotEmptyString(v) == ~(v.t = "string" /\ v.str = <<>>)

\* parseFloat(v): the argument is converted to a string first.
JsParseFloat(v) == ParseFloat(IF v.t = "string" THEN v.str ELSE NumberToString(v.num))

\* isNaN(v): the argument is converted with Number() first.
JsIsNaN(v) == IsNaN(IF v.t = "string" THEN ToNumber(v.str) ELSE v.num)

\* ------------------------------------------------------------------------
\* Texts the user enters (e.target.value of the inputs)
\* ------------------------------------------------------------------------

\* Raw-score input: cleared, a negative score, a score with three decimals.
RawInputs == { <<>>, <<"-", "2", "3", "0">>, <<"0", ".", "1", "2", "5">> }

\* Name input.
NameInputs == { "Zed" }

\* Total Max Marks input: cleared, negative, three decimals.
MaxMarksInputs == { <<>>, <<"-", "1", "0">>, <<"0", ".", "1", "2", "5">> }

\* Target Mean (%) input: cleared, below 0, above 100.
TargetMeanInputs == { <<>>, <<"-", "7", "5">>, <<"1", "5", "0">> }

\* Spread Scaling slider (min 0.5, max 1.5): both ends and the middle.
SdScalingInputs == { <<"0", ".", "5">>, <<"1">>, <<"1", ".", "5">> }

\* Options of the Normalization Method select.
Methods == { "robust", "ratio" }

\* Raw values of a student record that the number input of the table does
\* not deliver, for the normalization step taken as a function of any
\* student list: a text that is no number, and the two infinities.
EngineRaws == { <<"a", "b", "c">>, InfinityChars, <<"-">> \o InfinityChars }

\* ------------------------------------------------------------------------
\* State
\* ------------------------------------------------------------------------

VARIABLES
    maxMarks,           \* useState(100)
    targetMeanPercent,  \* useState(75)
    method,             \* useState('robust')
    sdScaling,          \* useState(1.0)
    students,           \* useState([...]): sequence of [id, name, raw]
    stats,              \* useMemo: [rawMean, rawSD, targetMeanPoints]
    normalizedData,     \* useMemo: sequence of [id, name, raw, adjusted]
    link,               \* the anchor the last handler clicked, or NoLink
    heldIds,            \* history: every id a student has held so far
    edits               \* number of handler invocations so far

vars == <<maxMarks, targetMeanPercent, method, sdScaling, students, stats,
          normalizedData, link, heldIds, edits>>

Student(id, name, raw) == [id |-> id, name |-> name, raw |-> raw]

InitialStudents ==
    << Student(1, "Student A", JsNumber(Num(65))),
       Student(2, "Student B", JsNumber(Num(55))),
       Student(3, "Student C", JsNumber(Num(82))),
       Student(4, "Student D", JsNumber(Num(40))),
       Student(5, "Student E", JsNumber(Num(70))) >>

Ids(studs) == { studs[i].id : i \in 1..Len(studs) }

\* ------------------------------------------------------------------------
\* Statistics calculation (useMemo stats)
\* ------------------------------------------------------------------------

\* Mutant of IsValidScore: the test s.raw !== '' left out.
IsValidScoreNoEmptyTest(s) == ~JsIsNaN(s.raw)

\* students.filter(s => s.raw !== '' && !isNaN(s.raw))
IsValidScore(s) == NotEmptyString(s.raw) /\ ~JsIsNaN(s.raw)

\* xs.reduce((a, b) => a + b, 0)
RECURSIVE SumSeq(_)
SumSeq(xs) == IF xs = <<>> THEN Num(0) ELSE Add(SumSeq(SubSeq(xs, 1, Len(xs) - 1)), xs[Len(xs)])

ValidScores(studs) ==
    LET kept == SelectSeq(studs, IsValidScore)
    IN  [i \in 1..Len(kept) |-> JsParseFloat(kept[i].raw)]

\* Mutant of TargetMeanPoints: the target capped to [0, maxMarks].
TargetMeanPointsCapped(tmp, mm) ==
    MathMin(mm, MathMax(Num(0), Mul(Div(tmp, Num(100)), mm)))

\* (targetMeanPercent / 100) * maxMarks
TargetMeanPoints(tmp, mm) == Mul(Div(tmp, Num(100)), mm)

\* sum / count
RawMean(validScores) == Div(SumSeq(validScores), Num(Len(validScores)))

\* Mutant of Variance: the sample variance (divisor count - 1).
VarianceSample(validScores) ==
    LET rawMean     == RawMean(validScores)
        squareDiffs == [i \in 1..Len(validScores) |-> MathPow2(Sub(validScores[i], rawMean))]
    IN  Div(SumSeq(squareDiffs), Num(Len(validScores) - 1))

\* squareDiffs.reduce((a, b) => a + b, 0) / count
Variance(validScores) ==
    LET rawMean     == RawMean(validScores)
        squareDiffs == [i \in 1..Len(validScores) |-> MathPow2(Sub(validScores[i], rawMean))]
    IN  Div(SumSeq(squareDiffs), Num(Len(validScores)))

\* Mutant of ComputeStats: no early return for count === 0.
ComputeStatsUnguarded(studs, mm, tmp) ==
    LET validScores == ValidScores(studs)
    IN  [rawMean          |-> RawMean(validScores),
         rawSD            |-> MathSqrt(Variance(validScores)),
         targetMeanPoints |-> TargetMeanPoints(tmp, mm)]

ComputeStats(studs, mm, tmp) ==
    LET validScores == ValidScores(studs)
        count       == Len(validScores)
    IN  IF count = 0
        THEN [rawMean |-> Num(0), rawSD |-> Num(0), targetMeanPoints |-> Num(0)]
        ELSE [rawMean          |-> RawMean(validScores),
              rawSD            |-> MathSqrt(Variance(validScores)),
              targetMeanPoints |-> TargetMeanPoints(tmp, mm)]

\* ------------------------------------------------------------------------
\* Normalization logic (useMemo normalizedData)
\* ------------------------------------------------------------------------

\* Mutant of Formula: the ratio branch without the rawMean === 0 test.
FormulaUnguarded(raw, st, meth, sd) ==
    IF meth = "ratio"
    THEN Mul(raw, Div(st.targetMeanPoints, st.rawMean))
    ELSE Add(st.targetMeanPoints, Mul(sd, Sub(raw, st.rawMean)))

\* Mutant of Formula: the ratio taken upside down (rawMean / targetMean).
FormulaInvertedRatio(raw, st, meth, sd) ==
    IF meth = "ratio"
    THEN IF StrictEq(st.rawMean, Num(0))
         THEN raw
         ELSE Mul(raw, Div(st.rawMean, st.targetMeanPoints))
    ELSE Add(st.targetMeanPoints, Mul(sd, Sub(raw, st.rawMean)))

\* Mutant of Formula: the robust branch without the spread scaling.
FormulaUnscaled(raw, st, meth, sd) ==
    IF meth = "ratio"
    THEN IF StrictEq(st.rawMean, Num(0))
         THEN raw
         ELSE Mul(raw, Div(st.targetMeanPoints, st.rawMean))
    ELSE Add(st.targetMeanPoints, Sub(raw, st.rawMean))

\* The value of `adjusted` before the cap, for a raw score that parsed.
Formula(raw, st, meth, sd) ==
    IF meth = "ratio"
    THEN IF StrictEq(st.rawMean, Num(0))
         THEN raw
         ELSE Mul(raw, Div(st.targetMeanPoints, st.rawMean))
    ELSE Add(st.targetMeanPoints, Mul(sd, Sub(raw, st.rawMean)))

\* Math.min(maxMarks, Math.max(0, adjusted))
Clamp(x, mm) == MathMin(mm, MathMax(Num(0), x))

\* Mutant of Round2: one fraction digit kept instead of two.
Round1(x) == ParseFloat(ToFixed(x, 1))

\* parseFloat(adjusted.toFixed(2))
Round2(x) == ParseFloat(ToFixed(x, 2))

\* Mutant of Adjusted: no fallback for a raw score that did not parse.
AdjustedNoFallback(student, st, meth, sd, mm) ==
    Round2(Clamp(Formula(JsParseFloat(student.raw), st, meth, sd), mm))

Adjusted(student, st, meth, sd, mm) ==
    LET raw == JsParseFloat(student.raw)
    IN  IF IsNaN(raw) THEN Num(0)
        ELSE Round2(Clamp(Formula(raw, st, meth, sd), mm))

ComputeNormalized(studs, st, meth, sd, mm) ==
    [i \in 1..Len(studs) |->
        [id       |-> studs[i].id,
         name     |-> studs[i].name,
         raw      |-> studs[i].raw,
         adjusted |-> Adjusted(studs[i], st, meth, sd, mm)]]

\* ------------------------------------------------------------------------
\* CSV export (downloadCSV): the text of the file and the href of the
\* anchor that is clicked.  Texts are sequences of one-character strings.
\* ------------------------------------------------------------------------

\* The characters of a string.
Chars(s) == [i \in 1..Len(s) |-> SubSeq(s, i, i)]

\* String(v) of a raw value, as Array.prototype.join converts an element.
JsToString(v) == IF v.t = "string" THEN v.str ELSE NumberToString(v.num)

\* parts.join(sep)
RECURSIVE Join(_, _)
Join(parts, sep) ==
    IF parts = <<>> THEN <<>>
    ELSE IF Len(parts) = 1 THEN parts[1]
    ELSE Join(SubSeq(parts, 1, Len(parts) - 1), sep) \o sep \o parts[Len(parts)]

CsvHeaders == << Chars("Student Name"), Chars("Raw Score"), Chars("Adjusted Score") >>

\* Mutant of CsvRows: the raw and the adjusted column exchanged.
CsvRowsSwapped(nd) ==
    [i \in 1..Len(nd) |->
        << Chars(nd[i].name), NumberToString(nd[i].adjusted), JsToString(nd[i].raw) >>]

\* normalizedData.map(s => [s.name, s.raw, s.adjusted])
CsvRows(nd) ==
    [i \in 1..Len(nd) |->
        << Chars(nd[i].name), JsToString(nd[i].raw), NumberToString(nd[i].adjusted) >>]

CsvPrefix == Chars("data:text/csv;charset=utf-8,")

CsvContent(nd) ==
    LET rows == CsvRows(nd)
    IN  CsvPrefix \o Join(CsvHeaders, <<",">>) \o <<"\n">>
        \o Join([i \in 1..Len(rows) |-> Join(rows[i], <<",">>)], <<"\n">>)

\* The characters encodeURI leaves as they are.
UriUnescaped ==
    LET cs == Chars("ABCDEFGHIJKLMNOPQRSTUVWXYZabcdefghijklmnopqrstuvwxyz0123456789")
              \o Chars(";,/?:@&=+$-_.!~*'()#")
    IN  { cs[i] : i \in 1..Len(cs) }

\* The ASCII characters encodeURI escapes that a text of the model can
\* carry, with their codes (characters beyond ASCII are not modelled).
UriEscaped ==
    << <<"\n", 10>>, <<" ", 32>>, <<"%", 37>>, <<"<", 60>>, <<">", 62>>,
       <<"[", 91>>, <<"]", 93>>, <<"^", 94>>, <<"{", 123>>, <<"|", 124>>,
       <<"}", 125>> >>

HexDigits == Chars("0123456789ABCDEF")

EncodeChar(c) ==
    IF c \in UriUnescaped
    THEN <<c>>
    ELSE LET code == UriEscaped[CHOOSE i \in 1..Len(UriEscaped) : UriEscaped[i][1] = c][2]
         IN  <<"%", HexDigits[(code \div 16) + 1], HexDigits[(code % 16) + 1]>>

\* encodeURI(s)
RECURSIVE EncodeURI(_)
EncodeURI(s) ==
    IF s = <<>> THEN <<>>
    ELSE IF Len(s) = 1 THEN EncodeChar(s[1])
    ELSE LET h == Len(s) \div 2
         IN  EncodeURI(SubSeq(s, 1, h)) \o EncodeURI(SubSeq(s, h + 1, Len(s)))

\* No anchor: the document holds none once a handler has returned.
NoLink == [href |-> <<>>, download |-> ""]

\* ------------------------------------------------------------------------
\* Re-render after a state update: each useMemo cell is re-evaluated when a
\* value of its dependency list changed.  (React compares the dependencies
\* with Object.is; a students array rebuilt with equal contents recomputes
\* to the same value, so comparing by value gives the same cells.)  The
\* handlers that update the state click no anchor.
\* ------------------------------------------------------------------------

\* Mutant of StatsDeps: targetMeanPercent left out of the dependency list.
StatsDepsNoTarget(studs, mm, tmp) == <<studs, mm>>

\* [students, maxMarks, targetMeanPercent]
StatsDeps(studs, mm, tmp) == <<studs, mm, tmp>>

\* Mutant of NormalizedDeps: sdScaling left out of the dependency list.
NormalizedDepsNoScaling(studs, st, meth, sd, mm) == <<studs, st, meth, mm>>

\* [students, stats, method, sdScaling, maxMarks]
NormalizedDeps(studs, st, meth, sd, mm) == <<studs, st, meth, sd, mm>>

Render ==
    /\ stats' = IF StatsDeps(students', maxMarks', targetMeanPercent')
                   # StatsDeps(students, maxMarks, targetMeanPercent)
                THEN ComputeStats(students', maxMarks', targetMeanPercent')
                ELSE stats
    /\ normalizedData' =
            IF NormalizedDeps(students', stats', method', sdScaling', maxMarks')
               # NormalizedDeps(students, stats, method, sdScaling, maxMarks)
            THEN ComputeNormalized(students', stats', method', sdScaling', maxMarks')
            ELSE normalizedData
    /\ link' = NoLink
    /\ heldIds' = heldIds \cup Ids(students')
    /\ edits' = edits + 1

\* ------------------------------------------------------------------------
\* Initial states
\* ------------------------------------------------------------------------

InitWith(studs) ==
    /\ maxMarks = Num(100)
    /\ targetMeanPercent = Num(75)
    /\ method = "robust"
    /\ sdScaling = Num(1)
    /\ students = studs
    /\ stats = ComputeStats(studs, Num(100), Num(75))
    /\ normalizedData =
          ComputeNormalized(studs, ComputeStats(studs, Num(100), Num(75)),
                            "robust", Num(1), Num(100))
    /\ link = NoLink
    /\ heldIds = Ids(InitialStudents)
    /\ edits = 0

\* The state after the component is constructed and first rendered.
Init == InitWith(InitialStudents)

\* The initial roster with the students of `keep` left, in order.
Roster(keep) == SelectSeq(InitialStudents, LAMBDA s : s.id \in keep)

\* The states the user reaches from Init by deleting the rows before and
\* after a run of one to MaxRoster students.
InitSmall ==
    \E lo \in 1..Len(InitialStudents) : \E n \in 1..MaxRoster :
        /\ lo + n - 1 <= Len(InitialStudents)
        /\ InitWith(Roster({ InitialStudents[i].id : i \in lo..(lo + n - 1) }))

\* ------------------------------------------------------------------------
\* Handlers
\* ------------------------------------------------------------------------

MaxOf(S) == CHOOSE m \in S : \A x \in S : x <= m

\* Mutant of NewId: the number of students plus one.
NewIdByCount(studs) == Len(studs) + 1

\* students.length > 0 ? Math.max(...students.map(s => s.id)) + 1 : 1
NewId(studs) == IF Len(studs) > 0 THEN MaxOf(Ids(studs)) + 1 ELSE 1

AddStudent ==
    /\ edits < MaxEdits
    /\ LET newId == NewId(students)
       IN  students' = Append(students,
                Student(newId, "Student " \o ToString(newId), JsNumber(Num(0))))
    /\ UNCHANGED <<maxMarks, targetMeanPercent, method, sdScaling>>
    /\ Render

\* Mutant of Removed: the row at position id is dropped, not the row whose
\* id is id.
RemovedAtIndex(studs, id) ==
    LET kept == SelectSeq([i \in 1..Len(studs) |-> i], LAMBDA i : i # id)
    IN  [k \in 1..Len(kept) |-> studs[kept[k]]]

\* students.filter(s => s.id !== id)
Removed(studs, id) == SelectSeq(studs, LAMBDA s : s.id # id)

RemoveStudent(id) ==
    /\ edits < MaxEdits
    /\ students' = Removed(students, id)
    /\ UNCHANGED <<maxMarks, targetMeanPercent, method, sdScaling>>
    /\ Render

\* students.map(s => s.id === id ? { ...s, [field]: value } : s)
Updated(studs, id, field, value) ==
    [i \in 1..Len(studs) |->
        IF studs[i].id = id THEN [studs[i] EXCEPT ![field] = value] ELSE studs[i]]

UpdateStudent(id, field, value) ==
    /\ edits < MaxEdits
    /\ students' = Updated(students, id, field, value)
    /\ UNCHANGED <<maxMarks, targetMeanPercent, method, sdScaling>>
    /\ Render

\* onChange={(e) => setMaxMarks(parseFloat(e.target.value))}
SetMaxMarks(text) ==
    /\ edits < MaxEdits
    /\ maxMarks' = ParseFloat(text)
    /\ UNCHANGED <<targetMeanPercent, method, sdScaling, students>>
    /\ Render

\* onChange={(e) => setTargetMeanPercent(parseFloat(e.target.value))}
SetTargetMeanPercent(text) ==
    /\ edits < MaxEdits
    /\ targetMeanPercent' = ParseFloat(text)
    /\ UNCHANGED <<maxMarks, method, sdScaling, students>>
    /\ Render

\* onChange={(e) => setMethod(e.target.value)}
SetMethod(value) ==
    /\ edits < MaxEdits
    /\ method' = value
    /\ UNCHANGED <<maxMarks, targetMeanPercent, sdScaling, students>>
    /\ Render

\* onChange={(e) => setSdScaling(parseFloat(e.target.value))}
SetSdScaling(text) ==
    /\ edits < MaxEdits
    /\ sdScaling' = ParseFloat(text)
    /\ UNCHANGED <<maxMarks, targetMeanPercent, method, students>>
    /\ Render

\* The anchor is created, clicked and removed again; no state of the
\* component changes, so nothing is rendered again.
DownloadCSV ==
    /\ edits < MaxEdits
    /\ link' = [href     |-> EncodeURI(CsvContent(normalizedData)),
                download |-> "normalized_scores.csv"]
    /\ edits' = edits + 1
    /\ UNCHANGED <<maxMarks, targetMeanPercent, method, sdScaling, students,
                   stats, normalizedData, heldIds>>

\* The rows of the table carry the handlers of the students displayed.
Next ==
    \/ AddStudent
    \/ \E id \in Ids(students) : RemoveStudent(id)
    \/ \E id \in Ids(students) : \E v \in NameInputs : UpdateStudent(id, "name", v)
    \/ \E id \in Ids(students) : \E v \in RawInputs : UpdateStudent(id, "raw", JsString(v))
    \/ \E v \in MaxMarksInputs : SetMaxMarks(v)
    \/ \E v \in TargetMeanInputs : SetTargetMeanPercent(v)
    \/ \E v \in Methods : SetMethod(v)
    \/ \E v \in SdScalingInputs : SetSdScaling(v)
    \/ DownloadCSV

\* The normalization step as a function of its input: the first one to
\* MaxRoster initial students, the first of them with a raw value of
\* EngineRaws.
InitEngine ==
    \E n \in 1..MaxRoster : \E v \in EngineRaws :
        InitWith(Updated(SubSeq(InitialStudents, 1, n), 1, "raw", JsString(v)))

Spec == Init /\ [][Next]_vars

SpecSmall == InitSmall /\ [][Next]_vars

SpecEngine == InitEngine /\ [][Next]_vars

\* ------------------------------------------------------------------------
\* Vocabulary of the properties
\* ------------------------------------------------------------------------

Rows == 1..Len(students)

\* parseFloat(student.raw) of row i, and the rows where it is a number.
RawOf(i) == JsParseFloat(students[i].raw)

ParsedRows == { i \in Rows : ~IsNaN(RawOf(i)) }

\* The adjusted score displayed and exported for row i.
AdjustedOf(i) == normalizedData[i].adjusted

\* The value of the formula for row i before the cap and the rounding.
PreClampOf(i) == Formula(RawOf(i), stats, method, sdScaling)

\* The rows the statistics count.
CountedRows == { i \in Rows : students[i].raw # JsString(<<>>) /\ ~JsIsNaN(students[i].raw) }

AbsNum(x) == [x EXCEPT !.n = Abs(x.n)]

\* The square of a number or of a surd.
Square(x) == IF x.k = "sqrt" THEN Rat(x.n, x.d) ELSE Mul(x, x)

\* Sum of f[i] over the rows of S, added in no particular order.
RECURSIVE SumOver(_, _)
SumOver(f, S) ==
    IF S = {} THEN Num(0)
    ELSE LET i == CHOOSE j \in S : TRUE IN Add(f[i], SumOver(f, S \ {i}))

HalfHundredth == Rat(1, 200)

\* ------------------------------------------------------------------------
\* C1.  Every student's adjusted score a satisfies 0 <= a <= maxMarks, after
\* the 2-decimal rounding and for students whose raw does not parse.  Stated
\* where maxMarks is a number >= 0, so that the range is not empty; it
\* fails there already: the rounding is applied after the cap, and a cap
\* with three decimals (0.125) is rounded up past itself (0.13).
\* ------------------------------------------------------------------------
C1_AdjustedWithinRange ==
    (IsFinite(maxMarks) /\ maxMarks.n >= 0) =>
        \A i \in Rows : Leq(Num(0), AdjustedOf(i)) /\ Leq(AdjustedOf(i), maxMarks)

\* ------------------------------------------------------------------------
\* C2.  The id given to a newly added student was never held by a student
\* before: every id that appears in the list in a step is an id no student
\* has held so far.  Fails: the id is max + 1 of the ids now in the list.
\* ------------------------------------------------------------------------
C2_NewIdNeverHeld ==
    [][\A id \in Ids(students') \ Ids(students) : id \notin heldIds]_vars

\* ------------------------------------------------------------------------
\* C3.  No two students of the list have the same id, in the initial state
\* and after every step, and an updateStudent of the name or raw field
\* leaves the id of every row as it was.
\* ------------------------------------------------------------------------
UniqueIds == \A i, j \in Rows : students[i].id = students[j].id => i = j

IdColumn(studs) == [i \in 1..Len(studs) |-> studs[i].id]

IsUpdateStep ==
    \E id \in Ids(students) :
        \/ \E v \in NameInputs : students' = Updated(students, id, "name", v)
        \/ \E v \in RawInputs : students' = Updated(students, id, "raw", JsString(v))

C3_IdsUniqueAndStable ==
    /\ UniqueIds
    /\ [][/\ UniqueIds'
          /\ IsUpdateStep => IdColumn(students') = IdColumn(students)]_vars

\* A student was added (id 6), one was removed and one was renamed.
C3_Witness ==
    /\ 6 \in Ids(students)
    /\ Len(students) = 5
    /\ \E i \in Rows : students[i].name = "Zed"

\* ------------------------------------------------------------------------
\* C4.  When every student has a valid raw score, no adjusted score is
\* changed by the cap and the target is a number, the mean of the adjusted
\* scores is the target mean to within the rounding of the scores (half a
\* hundredth): for the robust method with any sdScaling, and for the ratio
\* method when rawMean is not 0.
\* ------------------------------------------------------------------------
MeanOfAdjusted ==
    Div(SumOver([i \in Rows |-> AdjustedOf(i)], Rows), Num(Len(students)))

C4_Applies ==
    /\ Len(students) > 0
    /\ CountedRows = Rows
    /\ ParsedRows = Rows
    /\ IsFinite(stats.targetMeanPoints)
    /\ \A i \in Rows : Clamp(PreClampOf(i), maxMarks) = PreClampOf(i)
    /\ method = "ratio" => stats.rawMean # Num(0)

C4_MeanMeetsTarget ==
    C4_Applies =>
        Leq(AbsNum(Sub(MeanOfAdjusted, stats.targetMeanPoints)), HalfHundredth)

\* The ratio method on a class whose adjusted scores were rounded.
C4_Witness ==
    /\ C4_Applies
    /\ method = "ratio"
    /\ edits > 0
    /\ MeanOfAdjusted # stats.targetMeanPoints

\* ------------------------------------------------------------------------
\* C5.  Gap preservation: with method = robust and sdScaling = 1, two
\* students with raw scores a > b whose adjusted values are both strictly
\* between 0 and maxMarks have adjusted(a) - adjusted(b) = a - b exactly.
\* Fails for raw scores with more than two decimals.
\* ------------------------------------------------------------------------
StrictlyInside(i) == Less(Num(0), AdjustedOf(i)) /\ Less(AdjustedOf(i), maxMarks)

C5_GapPreserved ==
    (method = "robust" /\ sdScaling = Num(1)) =>
        \A i, j \in ParsedRows :
            (Less(RawOf(j), RawOf(i)) /\ StrictlyInside(i) /\ StrictlyInside(j)) =>
                Sub(AdjustedOf(i), AdjustedOf(j)) = Sub(RawOf(i), RawOf(j))

\* ------------------------------------------------------------------------
\* C6.  Rank order is preserved: for two students with valid raw scores
\* a >= b, adjusted(a) >= adjusted(b) (so a student with the highest raw
\* score has the maximum adjusted score), and two students with different
\* raw scores have the same adjusted score only when both sit at the cap 0
\* or at the cap maxMarks.  Stated where maxMarks and targetMeanPercent are
\* numbers; it fails there already.
\* ------------------------------------------------------------------------
AtCap(i) ==
    LET c == Clamp(PreClampOf(i), maxMarks)
    IN  c = Num(0) \/ c = maxMarks

C6_RankOrderPreserved ==
    (IsFinite(maxMarks) /\ IsFinite(targetMeanPercent)) =>
        \A i, j \in ParsedRows :
            /\ Leq(RawOf(j), RawOf(i)) => Leq(AdjustedOf(j), AdjustedOf(i))
            /\ (RawOf(i) # RawOf(j) /\ AdjustedOf(i) = AdjustedOf(j)) =>
                    (AtCap(i) /\ AtCap(j))

\* ------------------------------------------------------------------------
\* C7.  For a non-empty list of students whose raw scores are all finite,
\* stats.rawMean is sum(raw) / count and the square of stats.rawSD is the
\* population variance sum((raw - rawMean)^2) / count.
\* ------------------------------------------------------------------------
MeanOfRaw == Div(SumOver([i \in Rows |-> RawOf(i)], Rows), Num(Len(students)))

PopulationVariance ==
    Div(SumOver([i \in Rows |-> Square(Sub(RawOf(i), MeanOfRaw))], Rows),
        Num(Len(students)))

C7_Applies == Len(students) > 0 /\ \A i \in Rows : IsFinite(RawOf(i))

C7_MeanAndPopulationSD ==
    C7_Applies =>
        /\ stats.rawMean = MeanOfRaw
        /\ Square(stats.rawSD) = PopulationVariance

\* Several students, one of them edited, with an irrational deviation.
C7_Witness ==
    /\ C7_Applies
    /\ Len(students) >= 2
    /\ \E i \in Rows : students[i].raw.t = "string"
    /\ stats.rawSD.k = "sqrt"

\* ------------------------------------------------------------------------
\* C8.  stats.targetMeanPoints is (targetMeanPercent / 100) * maxMarks for
\* any targetMeanPercent, with no clamping of the target.  (Two NaN count
\* as the same value.)  Fails when no student has a valid raw score: the
\* target is then 0.
\* ------------------------------------------------------------------------
PercentOfMaxMarks == Mul(Div(targetMeanPercent, Num(100)), maxMarks)

C8_TargetIsPercentOfMax == stats.targetMeanPoints = PercentOfMaxMarks

\* C8 as amended: the same, when at least one student has a valid raw score.
C8_TargetWhenScoresCounted ==
    CountedRows # {} => stats.targetMeanPoints = PercentOfMaxMarks

\* A target of 150 percent, above maxMarks and not clamped.
C8_Witness ==
    /\ CountedRows # {}
    /\ targetMeanPercent = Num(150)
    /\ Less(maxMarks, stats.targetMeanPoints)

\* ------------------------------------------------------------------------
\* C9.  When the list is empty or no student has a valid raw score, stats
\* is {rawMean: 0, rawSD: 0, targetMeanPoints: 0} whatever maxMarks and
\* targetMeanPercent are (the quotient sum / count, 0 / 0, would be NaN).
\* ------------------------------------------------------------------------
C9_NoValidScoreGivesZeroStats ==
    CountedRows = {} =>
        stats = [rawMean |-> Num(0), rawSD |-> Num(0), targetMeanPoints |-> Num(0)]

\* Students with cleared scores, under an edited configuration.
C9_Witness ==
    /\ Len(students) > 0
    /\ CountedRows = {}
    /\ targetMeanPercent # Num(75)
    /\ maxMarks # Num(100)

\* ------------------------------------------------------------------------
\* C10.  With method = ratio and rawMean = 0, every student with a valid
\* raw score r has adjusted = min(maxMarks, max(0, r)).  Fails where that
\* value has more than two decimals: the adjusted score is rounded.
\* ------------------------------------------------------------------------
CappedRaw(i) == MathMin(maxMarks, MathMax(Num(0), RawOf(i)))

C10_Applies == method = "ratio" /\ stats.rawMean = Num(0)

NearestHundredth(x) ==
    IF ~IsFinite(x) THEN x
    ELSE Rat(SignOf(x) * ((2 * Abs(x.n) * 100 + x.d) \div (2 * x.d)), 100)

CappedOf(i) == Clamp(PreClampOf(i), maxMarks)

C13_AdjustedNeverNaN == \A i \in Rows : ~IsNaN(AdjustedOf(i))

\* ------------------------------------------------------------------------
\* C14.  No staleness: after any sequence of edits, the memoized stats and
\* normalizedData are the values a recomputation from the current student
\* list and configuration gives (each memoized computation is re-evaluated
\* whenever a value it reads has changed).
\* ------------------------------------------------------------------------
C14_MemoIsFresh ==
    /\ stats = ComputeStats(students, maxMarks, targetMeanPercent)
    /\ normalizedData =
          ComputeNormalized(students, stats, method, sdScaling, maxMarks)

\* The scaling was edited: stats was kept from the first render (none of
\* its dependencies changed) while normalizedData was re-evaluated.
C14_Witness ==
    /\ edits > 0
    /\ students = InitialStudents
    /\ maxMarks = Num(100)
    /\ targetMeanPercent = Num(75)
    /\ sdScaling # Num(1)
    /\ normalizedData # ComputeNormalized(students, stats, method, Num(1), maxMarks)

\* ------------------------------------------------------------------------
\* C15.  downloadCSV offers the file normalized_scores.csv whose text is
\* the header row 'Student Name,Raw Score,Adjusted Score' followed by one
\* row per student, in the order of the student list, each row the name,
\* the raw value and the adjusted score joined by commas; with no student
\* the text is the header followed by one newline and nothing else.  The
\* text is read back from the href of the anchor by undoing the escapes.
\* ------------------------------------------------------------------------
Indices(s) == [i \in 1..Len(s) |-> i]

HexValue(c) == (CHOOSE i \in 1..16 : HexDigits[i] = c) - 1

\* The character with the given code.
CharOfCode(code) ==
    UriEscaped[CHOOSE i \in 1..Len(UriEscaped) : UriEscaped[i][2] = code][1]

\* decodeURI(s) of a text whose every % starts an escape of one character.
DecodeURI(s) ==
    LET starts == SelectSeq(Indices(s),
                      LAMBDA i : /\ ~(i > 1 /\ s[i - 1] = "%")
                                 /\ ~(i > 2 /\ s[i - 2] = "%"))
    IN  [k \in 1..Len(starts) |->
            LET i == starts[k]
            IN  IF s[i] = "%"
                THEN CharOfCode(16 * HexValue(s[i + 1]) + HexValue(s[i + 2]))
                ELSE s[i]]

\* The lines of a text: the pieces between its newlines.
SplitLines(s) ==
    LET nl == SelectSeq(Indices(s), LAMBDA i : s[i] = "\n")
    IN  [k \in 1..(Len(nl) + 1) |->
            SubSeq(s, IF k = 1 THEN 1 ELSE nl[k - 1] + 1,
                      IF k = Len(nl) + 1 THEN Len(s) ELSE nl[k] - 1)]

HeaderRow == Chars("Student Name,Raw Score,Adjusted Score")

\* The text of the file the clicked anchor offers.
CsvText ==
    LET text == DecodeURI(link.href)
    IN  SubSeq(text, Len(CsvPrefix) + 1, Len(text))

C15_CsvIsHeaderAndRows ==
    link # NoLink =>
        /\ link.download = "normalized_scores.csv"
        /\ SplitLines(CsvText)[1] = HeaderRow
        /\ IF Len(students) = 0
           THEN CsvText = HeaderRow \o <<"\n">>
           ELSE /\ Len(SplitLines(CsvText)) = Len(students) + 1
                /\ \A i \in Rows :
                      SplitLines(CsvText)[i + 1] =
                          Chars(students[i].name) \o <<",">>
                          \o JsToString(students[i].raw) \o <<",">>
                          \o NumberToString(AdjustedOf(i))

\* An export of a list with an added student and a score typed in.
C15_Witness ==
    /\ link # NoLink
    /\ Len(students) >= 2
    /\ \E i \in Rows : students[i].raw.t = "string" /\ students[i].raw.str # <<>>
    /\ \E i \in Rows : students[i].id = 6

\* An export of the empty list.
C15_WitnessEmpty == link # NoLink /\ Len(students) = 0

\* ------------------------------------------------------------------------
\* C16.  With method = robust, every student with a valid raw score has
\* adjusted = min(maxMarks, max(0, targetMeanPoints + sdScaling * (raw -
\* rawMean))) rounded to two decimals; in the initial state (raw scores 65,
\* 55, 82, 40, 70, maxMarks 100, targetMeanPercent 75, sdScaling 1) rawMean
\* is 62.4, targetMeanPoints is 75 and the student with raw 65 has 77.6.
\* ------------------------------------------------------------------------
RobustOf(i) ==
    Add(stats.targetMeanPoints, Mul(sdScaling, Sub(RawOf(i), stats.rawMean)))

C16_RobustFormula ==
    /\ method = "robust" =>
          \A i \in CountedRows \cap ParsedRows :
              AdjustedOf(i) =
                  NearestHundredth(MathMin(maxMarks, MathMax(Num(0), RobustOf(i))))
    /\ edits = 0 =>
          /\ stats.rawMean = Rat(624, 10)
          /\ stats.targetMeanPoints = Num(75)
          /\ \A i \in Rows : RawOf(i) = Num(65) => AdjustedOf(i) = Rat(776, 10)

\* A spread scaling of 1.5 on a class with a typed score: a student whose
\* robust value lies between the caps and is rounded.
C16_Witness ==
    /\ method = "robust"
    /\ sdScaling = Rat(3, 2)
    /\ \E i \in CountedRows \cap ParsedRows :
          /\ students[i].raw.t = "string"
          /\ Less(Num(0), RobustOf(i))
          /\ Less(RobustOf(i), maxMarks)
    /\ \E i \in CountedRows \cap ParsedRows : AdjustedOf(i) # RobustOf(i)

\* ------------------------------------------------------------------------
\* C17.  removeStudent(id) deletes exactly the student with that id and
\* keeps the others as they are and in their order; updateStudent(id,
\* field, value) replaces the named field of that student only; with an id
\* no student has, both leave the list as it is; addStudent keeps every
\* record and appends one record with raw 0 at the end.
\* ------------------------------------------------------------------------

\* studs without its row k.
WithoutRow(studs, k) == SubSeq(studs, 1, k - 1) \o SubSeq(studs, k + 1, Len(studs))

OtherField(field) == IF field = "name" THEN "raw" ELSE "name"

\* next is studs with the named field of the student id set to value.
OnlyFieldChanged(studs, next, id, field, value) ==
    /\ Len(next) = Len(studs)
    /\ \A k \in 1..Len(studs) :
          IF studs[k].id = id
          THEN /\ next[k].id = id
               /\ next[k][field] = value
               /\ next[k][OtherField(field)] = studs[k][OtherField(field)]
          ELSE next[k] = studs[k]

\* The ids a student held once and no student has now.
AbsentIds == heldIds \ Ids(students)

UpdateArgs ==
    ({"name"} \X NameInputs) \cup ({"raw"} \X { JsString(v) : v \in RawInputs })

\* The step is a removeStudent(id), an updateStudent(id, field, value) or
\* an addStudent(): the new list is the one the handler sets.
IsRemove(id) == students' = Removed(students, id)

IsUpdate(id, field, value) == students' = Updated(students, id, field, value)

IsAdd == Len(students') > Len(students)

C17_HandlersChangeOnlyTheirStudent ==
    [][/\ \A id \in Ids(students) :
              IsRemove(id) =>
                  \E k \in Rows : students[k].id = id /\ students' = WithoutRow(students, k)
       /\ \A id \in Ids(students) : \A a \in UpdateArgs :
              IsUpdate(id, a[1], a[2]) =>
                  OnlyFieldChanged(students, students', id, a[1], a[2])
       /\ IsAdd =>
              /\ SubSeq(students', 1, Len(students)) = students
              /\ Len(students') = Len(students) + 1
              /\ students'[Len(students')].raw = JsNumber(Num(0))
       /\ \A id \in AbsentIds :
              /\ Removed(students, id) = students
              /\ \A a \in UpdateArgs : Updated(students, id, a[1], a[2]) = students]_vars

\* A row from the middle was removed, a student was added and a remaining
\* student was renamed: ids 1, 2 and 4 to 6, with an id that is now absent.
C17_Witness ==
    /\ AbsentIds = {3}
    /\ Len(students) = 5
    /\ students[5].id = 6
    /\ \E i \in Rows : students[i].name = "Zed"

\* ------------------------------------------------------------------------
\* C18.  The statistics and the normalization agree on which students are
\* valid: in every reachable state a student's raw score is one of those
\* that rawMean and rawSD are computed from if and only if the student's
\* adjusted score comes from the formula and not from the fallback 0.
\* ------------------------------------------------------------------------

\* The rows the filter of stats keeps.
InStats == { i \in Rows : IsValidScore(students[i]) }

\* The rows whose adjusted score the formula gives (parseFloat(raw) is not
\* NaN).
ByFormula == ParsedRows

C18_StatsAndFormulaAgree ==
    /\ InStats = ByFormula
    /\ ByFormula # {} =>
          stats.rawMean =
              Div(SumOver([i \in Rows |-> RawOf(i)], ByFormula),
                  Num(Cardinality(ByFormula)))
    /\ \A i \in Rows \ InStats : AdjustedOf(i) = Num(0)

\* A class with a cleared score (left out of both) next to typed and
\* initial scores (in both).
C18_Witness ==
    /\ \E i \in Rows : students[i].raw = JsString(<<>>) /\ i \notin InStats
    /\ \E i \in InStats : students[i].raw.t = "string"
    /\ \E i \in InStats : students[i].raw.t = "number"
    /\ \E i \in ByFormula : AdjustedOf(i) # Num(0)

====
